---- MODULE Spec2Model ----
(***************************************************************************)
(* A model of pgpdump/packet.py: the OpenPGP packet dispatcher             *)
(* (construct_packet), the two length decoders, and the per-tag decoders   *)
(* (Signature, Public-Key, User-ID, User-Attribute, Trust).                *)
(*                                                                         *)
(* Bytes are naturals in 0..255 and a bytearray is a sequence of them.     *)
(* Python indexes from 0, TLA+ from 1: At(d, i) is d[i] of the source.     *)
(* A Python value that may be None is a sequence of length 0 (None) or 1.  *)
(* A call that raises returns a record whose ok/status field says so.      *)
(***************************************************************************)
EXTENDS Integers, Sequences, FiniteSets, TLC

VARIABLES
    data,     \* the buffer handed to construct_packet
    offset,   \* the caller's offset into the buffer
    pc,       \* where control is
    hdr,      \* the locals of construct_packet once the header is decoded
    pkt,      \* the packet under construction and the locals of its parse()
    result,   \* what the last finished call returned or raised
    calls,    \* history: the offsets construct_packet was called at
    reads,    \* history: the offsets a subpacket header was read at (this packet)
    gen       \* what the buffer was generated from

vars == <<data, offset, pc, hdr, pkt, result, calls, reads, gen>>

----------------------------------------------------------------------------
(* Python values *)

None == <<>>
Some(v) == <<v>>

Min(a, b) == IF a < b THEN a ELSE b

\* 0 <= i < len(d): where d[i] does not raise IndexError (i is never negative here)
InRange(d, i) == i >= 0 /\ i < Len(d)

At(d, i) == d[i + 1]

\* d[a:b] for 0 <= a, 0 <= b: clipped to the buffer, empty when b <= a
Slice(d, a, b) == SubSeq(d, a + 1, Min(b, Len(d)))

\* d[a:]
SliceFrom(d, a) == SubSeq(d, a + 1, Len(d))

Pow2(k) == 2 ^ k

----------------------------------------------------------------------------
(* pgpdump/utils.py: the primitive readers *)

\* big-endian u16 at off; IndexError when a byte is missing
get_int2(d, off) ==
    IF InRange(d, off) /\ InRange(d, off + 1)
    THEN [ok |-> TRUE, value |-> At(d, off) * 256 + At(d, off + 1)]
    ELSE [ok |-> FALSE, value |-> 0]

\* big-endian u32 at off; IndexError when a byte is missing
get_int4(d, off) ==
    IF InRange(d, off) /\ InRange(d, off + 3)
    THEN [ok |-> TRUE,
          value |-> At(d, off) * 16777216 + At(d, off + 1) * 65536
                    + At(d, off + 2) * 256 + At(d, off + 3)]
    ELSE [ok |-> FALSE, value |-> 0]

\* the 8 bytes at off as a key identifier; fails when fewer than 8 remain
get_key_id(d, off) ==
    IF InRange(d, off) /\ InRange(d, off + 7)
    THEN [ok |-> TRUE, value |-> Slice(d, off, off + 8)]
    ELSE [ok |-> FALSE, value |-> <<>>]

\* the integer a big-endian byte string stands for
BigEndian(bs) ==
    LET val[i \in 0..Len(bs)] == IF i = 0 THEN 0 ELSE val[i - 1] * 256 + bs[i]
    IN  val[Len(bs)]

\* a 2-byte bit length, then ceil(bits/8) bytes of big-endian integer; a failed
\* read leaves offset -1, where every later read fails too
get_mpi(d, off) ==
    LET bits == get_int2(d, off)
        nbytes == (bits.value + 7) \div 8
    IN  IF ~bits.ok \/ off + 2 + nbytes > Len(d)
        THEN [ok |-> FALSE, value |-> 0, offset |-> -1]
        ELSE [ok |-> TRUE,
              value |-> BigEndian(Slice(d, off + 2, off + 2 + nbytes)),
              offset |-> off + 2 + nbytes]

----------------------------------------------------------------------------
(* The length decoders *)

LenRaise == [ok |-> FALSE, offset |-> 0, length |-> 0, partial |-> FALSE]
LenRet(o, l, p) == [ok |-> TRUE, offset |-> o, length |-> l, partial |-> p]

\* new_tag_length with the one-byte band ending a value early
new_tag_length_short_band(d, start) ==
    IF ~InRange(d, start) THEN LenRaise
    ELSE LET first == At(d, start) IN
         IF first < 191 THEN LenRet(0, first, FALSE)
         ELSE IF first < 224
              THEN IF InRange(d, start + 1)
                   THEN LenRet(1, (first - 192) * 256 + At(d, start + 1) + 192, FALSE)
                   ELSE LenRaise
         ELSE IF first = 255
              THEN LET v == get_int4(d, start + 1) IN
                   IF v.ok THEN LenRet(4, v.value, FALSE) ELSE LenRaise
         ELSE LenRet(0, Pow2(first % 32), TRUE)

new_tag_length(d, start) ==
    IF ~InRange(d, start) THEN LenRaise
    ELSE LET first == At(d, start) IN
         IF first < 192 THEN LenRet(0, first, FALSE)
         ELSE IF first < 224
              THEN IF InRange(d, start + 1)
                   THEN LenRet(1, (first - 192) * 256 + At(d, start + 1) + 192, FALSE)
                   ELSE LenRaise
         ELSE IF first = 255
              THEN LET v == get_int4(d, start + 1) IN
                   IF v.ok THEN LenRet(4, v.value, FALSE) ELSE LenRaise
         ELSE LenRet(0, Pow2(first % 32), TRUE)

\* old_tag_length counting the tag byte into an indeterminate length
old_tag_length_with_tag(d, start) ==
    IF ~InRange(d, start) THEN LenRaise
    ELSE LET temp_len == At(d, start) % 4 IN
         IF temp_len = 0
         THEN IF InRange(d, start + 1)
              THEN LenRet(1, At(d, start + 1), FALSE) ELSE LenRaise
         ELSE IF temp_len = 1
              THEN LET v == get_int2(d, start + 1) IN
                   IF v.ok THEN LenRet(2, v.value, FALSE) ELSE LenRaise
         ELSE IF temp_len = 2
              THEN LET v == get_int4(d, start + 1) IN
                   IF v.ok THEN LenRet(4, v.value, FALSE) ELSE LenRaise
         ELSE LenRet(0, Len(d) - start, FALSE)

old_tag_length(d, start) ==
    IF ~InRange(d, start) THEN LenRaise
    ELSE LET temp_len == At(d, start) % 4 IN
         IF temp_len = 0
         THEN IF InRange(d, start + 1)
              THEN LenRet(1, At(d, start + 1), FALSE) ELSE LenRaise
         ELSE IF temp_len = 1
              THEN LET v == get_int2(d, start + 1) IN
                   IF v.ok THEN LenRet(2, v.value, FALSE) ELSE LenRaise
         ELSE IF temp_len = 2
              THEN LET v == get_int4(d, start + 1) IN
                   IF v.ok THEN LenRet(4, v.value, FALSE) ELSE LenRaise
         ELSE LenRet(0, Len(d) - start - 1, FALSE)

----------------------------------------------------------------------------
(* Packet: the base object, and what a constructor call returns *)

Packet(raw, name, new, body) ==
    [cls |-> "Packet", raw |-> raw, name |-> name, new |-> new,
     length |-> Len(body), data |-> body]

----------------------------------------------------------------------------
(* datetime: a point in time is (days since the epoch, seconds of the day) *)

utcfromtimestamp(t) == [days |-> t \div 86400, secs |-> t % 86400]

\* datetime + timedelta(seconds = s)
plus_seconds(dt, s) ==
    [days |-> dt.days + (dt.secs + s) \div 86400, secs |-> (dt.secs + s) % 86400]

----------------------------------------------------------------------------
(* SignatureSubpacket *)

CRITICAL_BIT == 128
CRITICAL_MASK == 127

SignatureSubpacket(raw, hashed, sub_data) ==
    [raw |-> raw, subtype |-> raw % (CRITICAL_MASK + 1), hashed |-> hashed,
     critical |-> (raw \div CRITICAL_BIT) % 2 = 1,
     length |-> Len(sub_data), data |-> sub_data]

----------------------------------------------------------------------------
(* Decoders.  A packet under construction is a machine m: m.obj is the     *)
(* object, m.pc where its parse() is ("start", a decoder's own places,     *)
(* "done" when parse() has returned, "raised" with the exception in m.exc) *)
(* and the other fields are the locals of parse().                         *)
(*                                                                         *)
(* SignaturePacket: m.poffset is the offset of parse(); m.offset,          *)
(* m.outer_offset and m.outer_length are the locals of parse_subpackets(); *)
(* m.pc is "hashed" or "unhashed" inside the scan of that region.          *)

Machine(obj) ==
    [obj |-> obj, pc |-> "start", exc |-> "", poffset |-> 0, offset |-> 0,
     outer_offset |-> 0, outer_length |-> 0, sub_len |-> 0]

Raise(m, e) == [m EXCEPT !.pc = "raised", !.exc = e]
Done(m, obj) == [m EXCEPT !.pc = "done", !.obj = obj]

SignaturePacket_init(raw, name, new, body) ==
    Packet(raw, name, new, body) @@
    [sig_version |-> None, raw_sig_type |-> None, raw_pub_algorithm |-> None,
     raw_hash_algorithm |-> None, raw_creation_time |-> None,
     creation_time |-> None, raw_expiration_time |-> None,
     expiration_time |-> None, key_id |-> None, hash2 |-> None,
     subpackets |-> <<>>]

\* version 3 without the test of the "hash material" byte
SigParseV3_unchecked(m) ==
    LET d == m.obj.data
        ct == get_int4(d, 3)
        kid == get_key_id(d, 7)
    IN  IF ~InRange(d, 2) \/ ~ct.ok \/ ~kid.ok \/ ~InRange(d, 16)
        THEN Raise(m, "IndexError")
        ELSE [m EXCEPT !.pc = "done", !.poffset = 19,
                       !.obj = [m.obj EXCEPT
                           !.sig_version = Some(3),
                           !.raw_sig_type = Some(At(d, 2)),
                           !.raw_creation_time = Some(ct.value),
                           !.creation_time = Some(utcfromtimestamp(ct.value)),
                           !.key_id = Some(kid.value),
                           !.raw_pub_algorithm = Some(At(d, 15)),
                           !.raw_hash_algorithm = Some(At(d, 16)),
                           !.hash2 = Some(Slice(d, 17, 19))]]

\* parse(), version 3: lines 147-179
SigParseV3(m) ==
    LET d == m.obj.data
        ct == get_int4(d, 3)
        kid == get_key_id(d, 7)
    IN  IF ~InRange(d, 1) THEN Raise(m, "IndexError")
        ELSE IF At(d, 1) # 5 THEN Raise(m, "Invalid v3 signature packet")
        ELSE IF ~InRange(d, 2) \/ ~ct.ok \/ ~kid.ok \/ ~InRange(d, 16)
             THEN Raise(m, "IndexError")
        ELSE [m EXCEPT !.pc = "done", !.poffset = 19,
                       !.obj = [m.obj EXCEPT
                           !.sig_version = Some(3),
                           !.raw_sig_type = Some(At(d, 2)),
                           !.raw_creation_time = Some(ct.value),
                           !.creation_time = Some(utcfromtimestamp(ct.value)),
                           !.key_id = Some(kid.value),
                           !.raw_pub_algorithm = Some(At(d, 15)),
                           !.raw_hash_algorithm = Some(At(d, 16)),
                           !.hash2 = Some(Slice(d, 17, 19))]]

\* parse(), version 4 up to the call that scans the hashed region: lines 181-199
SigParseV4(m) ==
    LET d == m.obj.data
        len == get_int2(d, 4)
    IN  IF ~InRange(d, 3) \/ ~len.ok THEN Raise(m, "IndexError")
        ELSE [m EXCEPT !.pc = "hashed", !.poffset = 6, !.offset = 6,
                       !.outer_offset = 6, !.outer_length = len.value,
                       !.obj = [m.obj EXCEPT
                           !.sig_version = Some(4),
                           !.raw_sig_type = Some(At(d, 1)),
                           !.raw_pub_algorithm = Some(At(d, 2)),
                           !.raw_hash_algorithm = Some(At(d, 3))]]

\* parse() from its first line: the version byte decides
SigParseStart(m) ==
    LET d == m.obj.data IN
    IF ~InRange(d, 0) THEN Raise(m, "IndexError")
    ELSE IF At(d, 0) = 3 THEN SigParseV3(m)
    ELSE IF At(d, 0) = 4 THEN SigParseV4(m)
    ELSE [m EXCEPT !.pc = "done", !.poffset = 1,
                   !.obj = [m.obj EXCEPT !.sig_version = Some(At(d, 0))]]

\* a subpacket effect where the first creation time and issuer stay
SubpacketEffect_first_wins(obj, sp) ==
    LET ct == get_int4(sp.data, 0)
        kid == get_key_id(sp.data, 0)
    IN  IF sp.subtype = 2
        THEN [ok |-> ct.ok,
              obj |-> IF obj.raw_creation_time # None THEN obj
                      ELSE [obj EXCEPT !.raw_creation_time = Some(ct.value),
                                       !.creation_time = Some(utcfromtimestamp(ct.value))]]
        ELSE IF sp.subtype = 3
        THEN [ok |-> ct.ok,
              obj |-> [obj EXCEPT !.raw_expiration_time = Some(ct.value)]]
        ELSE IF sp.subtype = 16
        THEN [ok |-> kid.ok,
              obj |-> IF obj.key_id # None THEN obj
                      ELSE [obj EXCEPT !.key_id = Some(kid.value)]]
        ELSE [ok |-> TRUE, obj |-> obj]

\* the subpacket's effect on the enclosing packet: lines 226-233
SubpacketEffect(obj, sp) ==
    LET ct == get_int4(sp.data, 0)
        kid == get_key_id(sp.data, 0)
    IN  IF sp.subtype = 2
        THEN [ok |-> ct.ok,
              obj |-> [obj EXCEPT !.raw_creation_time = Some(ct.value),
                                  !.creation_time = Some(utcfromtimestamp(ct.value))]]
        ELSE IF sp.subtype = 3
        THEN [ok |-> ct.ok,
              obj |-> [obj EXCEPT !.raw_expiration_time = Some(ct.value)]]
        ELSE IF sp.subtype = 16
        THEN [ok |-> kid.ok, obj |-> [obj EXCEPT !.key_id = Some(kid.value)]]
        ELSE [ok |-> TRUE, obj |-> obj]

\* one iteration of the while loop of parse_subpackets: lines 214-235
SubpacketIter(m) ==
    LET d == m.obj.data
        tl == new_tag_length(d, m.offset)
        sub_len == tl.length - 1
        o1 == m.offset + 1 + tl.offset
        o2 == o1 + 1
        sp == SignatureSubpacket(At(d, o1), m.pc = "hashed",
                                 Slice(d, o2, o2 + sub_len))
        eff == SubpacketEffect(m.obj, sp)
    IN  IF ~tl.ok \/ ~InRange(d, o1) THEN Raise(m, "IndexError")
        ELSE IF ~eff.ok THEN Raise(m, "IndexError")
        ELSE [m EXCEPT !.offset = o2 + sub_len,
                       !.obj = [eff.obj EXCEPT
                                   !.subpackets = Append(@, sp)]]

\* a truthy raw_expiration_time: set, and not zero
Truthy(opt) == opt # None /\ opt[1] # 0

\* lines 237-239, after the loop of parse_subpackets
ExpirationUpdate(obj) ==
    IF ~Truthy(obj.raw_expiration_time) THEN [ok |-> TRUE, obj |-> obj]
    ELSE IF obj.creation_time = None THEN [ok |-> FALSE, obj |-> obj]
    ELSE [ok |-> TRUE,
          obj |-> [obj EXCEPT !.expiration_time =
                      Some(plus_seconds(obj.creation_time[1],
                                        obj.raw_expiration_time[1]))]]

\* the loop of parse_subpackets has ended: lines 237-239, then parse() goes
\* on at line 200 (after the hashed region) or line 206 (after the unhashed)
SubpacketsEnd(m) ==
    LET d == m.obj.data
        upd == ExpirationUpdate(m.obj)
        po == m.poffset + m.outer_length
        len == get_int2(d, po)
    IN  IF ~upd.ok THEN Raise(m, "TypeError")
        ELSE IF m.pc = "hashed"
        THEN IF ~len.ok THEN Raise([m EXCEPT !.obj = upd.obj], "IndexError")
             ELSE [m EXCEPT !.pc = "unhashed", !.obj = upd.obj,
                            !.poffset = po + 2, !.offset = po + 2,
                            !.outer_offset = po + 2, !.outer_length = len.value]
        ELSE [m EXCEPT !.pc = "done", !.poffset = po + 2,
                       !.obj = [upd.obj EXCEPT !.hash2 = Some(Slice(d, po, po + 2))]]

SigScanning(m) == m.pc \in {"hashed", "unhashed"}
SigLoopCond(m) == m.offset < m.outer_offset + m.outer_length

----------------------------------------------------------------------------
(* PublicKeyPacket (and PublicSubkeyPacket, which inherits parse()) *)

PublicKeyPacket_init(raw, name, new, body) ==
    Packet(raw, name, new, body) @@
    [pubkey_version |-> None, fingerprint |-> None, key_id |-> None,
     raw_creation_time |-> None, creation_time |-> None,
     raw_pub_algorithm |-> None, pub_algorithm_type |-> None,
     modulus |-> None, exponent |-> None, prime |-> None,
     group_order |-> None, group_gen |-> None, key_value |-> None]

\* the SHA-1 digest of the seed bytes and the body, left uninterpreted
Fingerprint(obj) ==
    [sha1 |-> <<153, (obj.length \div 256) % 256, obj.length % 256>> \o obj.data]

\* k calls of get_mpi in a row from off: rd[i] is what the i-th returned
get_mpis(d, off, k) ==
    LET rd[i \in 0..k] ==
            IF i = 0 THEN [ok |-> TRUE, value |-> 0, offset |-> off]
            ELSE get_mpi(d, rd[i - 1].offset)
    IN  rd

\* how many MPIs the algorithm has: n, e; p, q, g, y; p, g, y
MpiCount(alg) ==
    IF alg \in {1, 2, 3} THEN 2 ELSE IF alg = 17 THEN 4
    ELSE IF alg = 16 THEN 3 ELSE 0

\* the algorithm-specific fields, from the MPIs read: lines 318-335
PublicKeyFields(obj, alg, v) ==
    IF alg \in {1, 2, 3}
    THEN [obj EXCEPT !.pub_algorithm_type = Some("rsa"),
                     !.modulus = Some(v[1].value), !.exponent = Some(v[2].value)]
    ELSE IF alg = 17
    THEN [obj EXCEPT !.pub_algorithm_type = Some("dsa"),
                     !.prime = Some(v[1].value), !.group_order = Some(v[2].value),
                     !.group_gen = Some(v[3].value), !.key_value = Some(v[4].value)]
    ELSE IF alg = 16
    THEN [obj EXCEPT !.pub_algorithm_type = Some("elgamal"),
                     !.prime = Some(v[1].value), !.group_gen = Some(v[2].value),
                     !.key_value = Some(v[3].value)]
    ELSE obj

\* parse(), version 4: lines 303-335
PublicKeyParseV4(m) ==
    LET d == m.obj.data
        ct == get_int4(d, 1).value
        alg == At(d, 5)
        v == get_mpis(d, 6, MpiCount(alg))
    IN  IF ~InRange(d, 5) \/ ~v[MpiCount(alg)].ok THEN Raise(m, "IndexError")
        ELSE Done(m, PublicKeyFields(
                 [m.obj EXCEPT !.pubkey_version = Some(4),
                               !.fingerprint = Some(Fingerprint(m.obj)),
                               !.key_id = Some([low64 |-> Fingerprint(m.obj)]),
                               !.raw_creation_time = Some(ct),
                               !.creation_time = Some(utcfromtimestamp(ct)),
                               !.raw_pub_algorithm = Some(alg)], alg, v))

PublicKeyParse(m) ==
    IF ~InRange(m.obj.data, 0) THEN Raise(m, "IndexError")
    ELSE IF At(m.obj.data, 0) = 4 THEN PublicKeyParseV4(m)
    ELSE Done(m, [m.obj EXCEPT !.pubkey_version = Some(At(m.obj.data, 0))])

----------------------------------------------------------------------------
(* UserIDPacket.  Text is a sequence of code points.                       *)

\* the bytes a UTF-8 sequence starting with byte b has; 0 when b starts none
Utf8Width(b) ==
    IF b < 128 THEN 1
    ELSE IF b >= 194 /\ b <= 223 THEN 2
    ELSE IF b >= 224 /\ b <= 239 THEN 3
    ELSE IF b >= 240 /\ b <= 244 THEN 4
    ELSE 0

\* whether bs holds a well-formed sequence at i
Utf8WellFormed(bs, i) ==
    /\ Utf8Width(bs[i]) > 0
    /\ i + Utf8Width(bs[i]) - 1 <= Len(bs)
    /\ \A j \in (i + 1)..(i + Utf8Width(bs[i]) - 1) : bs[j] >= 128 /\ bs[j] <= 191
    /\ (bs[i] = 224 => bs[i + 1] >= 160)
    /\ (bs[i] = 237 => bs[i + 1] <= 159)
    /\ (bs[i] = 240 => bs[i + 1] >= 144)
    /\ (bs[i] = 244 => bs[i + 1] <= 143)

\* the code point of the well-formed sequence at i
Utf8CodePoint(bs, i) ==
    IF bs[i] < 128 THEN bs[i]
    ELSE IF bs[i] < 224 THEN (bs[i] % 32) * 64 + (bs[i + 1] % 64)
    ELSE IF bs[i] < 240
    THEN (bs[i] % 16) * 4096 + (bs[i + 1] % 64) * 64 + (bs[i + 2] % 64)
    ELSE (bs[i] % 8) * 262144 + (bs[i + 1] % 64) * 4096
         + (bs[i + 2] % 64) * 64 + (bs[i + 3] % 64)

\* bytes.decode('utf8'), strict: dec[i] is the decoding of bs from i on
utf8_decode(bs) ==
    LET dec[i \in 1..(Len(bs) + 1)] ==
            IF i > Len(bs) THEN <<TRUE>>
            ELSE IF ~Utf8WellFormed(bs, i) THEN <<FALSE>>
            ELSE <<Utf8CodePoint(bs, i)>> \o dec[i + Utf8Width(bs[i])]
    IN  [ok |-> dec[1][Len(dec[1])], text |-> SubSeq(dec[1], 1, Len(dec[1]) - 1)]

LT == 60
GT == 62

\* the code points str.strip() removes
IsSpace(c) == c \in {9, 10, 11, 12, 13, 28, 29, 30, 31, 32, 133, 160}

\* str.strip(): from the first to the last code point that is not a space
strip(t) ==
    LET keep == {i \in 1..Len(t) : ~IsSpace(t[i])}
    IN  IF keep = {} THEN <<>>
        ELSE SubSeq(t, CHOOSE i \in keep : \A j \in keep : i <= j,
                       CHOOSE i \in keep : \A j \in keep : i >= j)

\* re.match(r'^([^<]+)? ?<([^>]*)>?', text): no match without a '<'; else
\* group 1 is the text before the first '<' (None when there is none: the
\* optional group did not take part) and group 2 the run of non-'>' after it
user_regex_match(text) ==
    LET lts == {i \in 1..Len(text) : text[i] = LT}
        i == CHOOSE k \in lts : \A j \in lts : k <= j
        gts == {j \in (i + 1)..Len(text) : text[j] = GT} \cup {Len(text) + 1}
        e == CHOOSE k \in gts : \A j \in gts : k <= j
    IN  IF lts = {} THEN [matched |-> FALSE, group1 |-> None, group2 |-> None]
        ELSE [matched |-> TRUE,
              group1 |-> IF i = 1 THEN None ELSE Some(SubSeq(text, 1, i - 1)),
              group2 |-> Some(SubSeq(text, i + 1, e - 1))]

UserIDPacket_init(raw, name, new, body) ==
    Packet(raw, name, new, body) @@
    [user |-> None, user_name |-> None, user_email |-> None]

\* lines 370-373, with the decoded text
UserIDMatch(m, text) ==
    LET g == user_regex_match(text) IN
    IF ~g.matched THEN Done(m, [m.obj EXCEPT !.user = Some(text)])
    ELSE IF g.group1 = None THEN Raise(m, "AttributeError")
    ELSE Done(m, [m.obj EXCEPT !.user = Some(text),
                               !.user_name = Some(strip(g.group1[1])),
                               !.user_email = Some(strip(g.group2[1]))])

UserIDParse(m) ==
    IF ~utf8_decode(m.obj.data).ok THEN Raise(m, "UnicodeDecodeError")
    ELSE UserIDMatch(m, utf8_decode(m.obj.data).text)

----------------------------------------------------------------------------
(* TrustPacket *)

TrustPacket_init(raw, name, new, body) ==
    Packet(raw, name, new, body) @@ [trust |-> None]

TrustParse(m) ==
    IF m.obj.length = 2
    THEN Done(m, [m.obj EXCEPT !.trust = Some(get_int2(m.obj.data, 0).value)])
    ELSE Done(m, m.obj)

----------------------------------------------------------------------------
(* UserAttributePacket: m.offset and m.sub_len are the locals of parse();  *)
(* m.pc stays "start" while the while loop runs.                           *)

UserAttributePacket_init(raw, name, new, body) ==
    Packet(raw, name, new, body) @@
    [raw_image_format |-> None, image_format |-> None, image_data |-> None]

UatLoopCond(m) == m.offset + m.sub_len < Len(m.obj.data)

\* lines 402-413: the image subpacket whose data starts at o2
UatImage(m, o2, sub_len) ==
    LET d == m.obj.data
        hdr_size == At(d, o2) + At(d, o2 + 1) * 256
        fmt == At(d, o2 + 3)
    IN  IF ~InRange(d, o2 + 3) THEN Raise(m, "IndexError")
        ELSE [m EXCEPT !.offset = o2 + hdr_size, !.sub_len = sub_len,
                       !.obj = [m.obj EXCEPT
                           !.raw_image_format = Some(fmt),
                           !.image_data = Some(SliceFrom(d, o2 + hdr_size)),
                           !.image_format = Some(IF fmt = 1 THEN "jpeg"
                                                 ELSE "unknown")]]

\* one iteration of the while loop of parse(): lines 391-413
UatIter(m) ==
    LET d == m.obj.data
        tl == new_tag_length(d, m.offset)
        o1 == m.offset + 1 + tl.offset
    IN  IF ~tl.ok \/ ~InRange(d, o1) THEN Raise(m, "IndexError")
        ELSE IF At(d, o1) # 1
        THEN [m EXCEPT !.offset = o1 + 1, !.sub_len = tl.length - 1]
        ELSE UatImage(m, o1 + 1, tl.length - 1)

----------------------------------------------------------------------------
(* The dispatcher's table *)

\* tag -> <<name, PacketType>>; "Packet" stands for the table's None, which
\* construct_packet replaces by Packet (lines 516-517)
TAG_TYPES ==
    0 :> <<"Reserved", "Packet">> @@
    1 :> <<"Public-Key Encrypted Session Key Packet", "Packet">> @@
    2 :> <<"Signature Packet", "SignaturePacket">> @@
    3 :> <<"Symmetric-Key Encrypted Session Key Packet", "Packet">> @@
    4 :> <<"One-Pass Signature Packet", "Packet">> @@
    5 :> <<"Secret Key Packet", "Packet">> @@
    6 :> <<"Public Key Packet", "PublicKeyPacket">> @@
    7 :> <<"Secret Subkey Packet", "Packet">> @@
    8 :> <<"Compressed Data Packet", "Packet">> @@
    9 :> <<"Symmetrically Encrypted Data Packet", "Packet">> @@
    10 :> <<"Marker Packet", "Packet">> @@
    11 :> <<"Literal Data Packet", "Packet">> @@
    12 :> <<"Trust Packet", "TrustPacket">> @@
    13 :> <<"User ID Packet", "UserIDPacket">> @@
    14 :> <<"Public Subkey Packet", "PublicSubkeyPacket">> @@
    17 :> <<"User Attribute Packet", "UserAttributePacket">> @@
    18 :> <<"Symmetrically Encrypted and MDC Packet", "Packet">> @@
    19 :> <<"Modification Detection Code Packet", "Packet">> @@
    60 :> <<"Private", "Packet">> @@
    61 :> <<"Private", "Packet">> @@
    62 :> <<"Private", "Packet">> @@
    63 :> <<"Private", "Packet">>

\* a lookup whose default is the name of tag 0
TagLookup_reserved(tag) ==
    IF tag \in DOMAIN TAG_TYPES THEN TAG_TYPES[tag] ELSE <<"Reserved", "Packet">>

\* TAG_TYPES.get(tag, ("Unknown", None))
TagLookup(tag) ==
    IF tag \in DOMAIN TAG_TYPES THEN TAG_TYPES[tag] ELSE <<"Unknown", "Packet">>

\* bool(data[start] & 0x40)
IsNew(b) == (b \div 64) % 2 = 1

\* the tag number of a tag byte: lines 502 and 508
TagOf(b) == IF IsNew(b) THEN b % 64 ELSE (b % 64) \div 4

\* lines 504-510: the length decoder the framing calls for
TagLength(d, start) ==
    IF IsNew(At(d, start)) THEN new_tag_length(d, start + 1)
    ELSE old_tag_length(d, start)

\* a header size that leaves out the tag byte of an old-style packet
DataOffset_no_tag(new, tl) == IF new THEN tl.offset + 2 ELSE tl.offset

\* lines 506 and 511: the bytes of the header, the tag byte included
DataOffset(new, tl) == IF new THEN tl.offset + 2 ELSE tl.offset + 1

\* the locals of construct_packet at line 515
Header(d, start, tl) ==
    [ok |-> TRUE, start |-> start,
     tag |-> TagOf(At(d, start)), new |-> IsNew(At(d, start)),
     name |-> TagLookup(TagOf(At(d, start)))[1],
     cls |-> TagLookup(TagOf(At(d, start)))[2],
     data_offset |-> DataOffset(IsNew(At(d, start)), tl),
     length |-> tl.length,
     partial |-> IsNew(At(d, start)) /\ tl.partial,
     packet_data |-> Slice(d, start + DataOffset(IsNew(At(d, start)), tl),
                           start + DataOffset(IsNew(At(d, start)), tl) + tl.length)]

NoHeader == [ok |-> FALSE]

\* the object as its __init__ leaves it when it calls parse()
ObjectFields(h) ==
    IF h.cls = "SignaturePacket"
    THEN SignaturePacket_init(h.tag, h.name, h.new, h.packet_data)
    ELSE IF h.cls \in {"PublicKeyPacket", "PublicSubkeyPacket"}
    THEN PublicKeyPacket_init(h.tag, h.name, h.new, h.packet_data)
    ELSE IF h.cls = "UserIDPacket"
    THEN UserIDPacket_init(h.tag, h.name, h.new, h.packet_data)
    ELSE IF h.cls = "UserAttributePacket"
    THEN UserAttributePacket_init(h.tag, h.name, h.new, h.packet_data)
    ELSE IF h.cls = "TrustPacket"
    THEN TrustPacket_init(h.tag, h.name, h.new, h.packet_data)
    ELSE Packet(h.tag, h.name, h.new, h.packet_data)

NewObject(h) == [ObjectFields(h) EXCEPT !.cls = h.cls]

NoResult == [status |-> "none"]
Returned(len, p) == [status |-> "ok", exc |-> "", length |-> len, packet |-> p]
Raised(e) == [status |-> "error", exc |-> e]

----------------------------------------------------------------------------
(* Inputs: the buffers the decoder is run on *)

MaxPackets == 2
MaxBody == 2
MaxSubs == 3
MaxText == 3
MaxAttrs == 2

SeqsUpTo(S, n) == UNION {[1..k -> S] : k \in 0..n}

Concat(ss) ==
    LET cat[i \in 0..Len(ss)] == IF i = 0 THEN <<>> ELSE cat[i - 1] \o ss[i]
    IN  cat[Len(ss)]

DropLast(d, k) == SubSeq(d, 1, Len(d) - Min(k, Len(d)))

\* the bytes dropped from the end of a generated buffer
Cuts == {0, 1, 2}

\* <<tag, framing and length form>>
PacketKinds ==
    {<<1, "old0">>, <<15, "old1">>, <<1, "old2">>, <<15, "old3">>,
     <<12, "old0">>, <<20, "new1">>, <<60, "new5">>, <<20, "partial">>,
     <<1, "new2">>}

\* the header of a packet of that kind whose body has n bytes
HeaderImage(kind, n) ==
    IF kind[2] = "old0" THEN <<128 + kind[1] * 4, n>>
    ELSE IF kind[2] = "old1" THEN <<129 + kind[1] * 4, n \div 256, n % 256>>
    ELSE IF kind[2] = "old2"
    THEN <<130 + kind[1] * 4, 0, 0, n \div 256, n % 256>>
    ELSE IF kind[2] = "old3" THEN <<131 + kind[1] * 4>>
    ELSE IF kind[2] = "new1" THEN <<192 + kind[1], n>>
    ELSE IF kind[2] = "new2" THEN <<192 + kind[1], 192, n>>
    ELSE IF kind[2] = "new5" THEN <<192 + kind[1], 255, 0, 0, n \div 256, n % 256>>
    ELSE <<192 + kind[1], 224 + (n \div 2)>>

\* the packet of kind p[1] with a body of p[2] bytes, each '<'
PacketImage(p) == HeaderImage(p[1], p[2]) \o [i \in 1..p[2] |-> 60]

\* a new-style packet with a one-byte length around body
Wrap(tag, body) == <<192 + tag, Len(body)>> \o body

\* signature subpackets: the subtype byte (bit 7: critical) and the data
SubKinds ==
    {[raw |-> 2, data |-> <<0, 0, 0, 100>>],
     [raw |-> 130, data |-> <<0, 1, 81, 128>>],
     [raw |-> 3, data |-> <<0, 0, 0, 0>>],
     [raw |-> 3, data |-> <<0, 1, 81, 127>>],
     [raw |-> 16, data |-> <<1, 2, 3, 4, 5, 6, 7, 8>>],
     [raw |-> 144, data |-> <<8, 7, 6, 5, 4, 3, 2, 1>>],
     [raw |-> 27, data |-> <<3>>]}

SubImage(sp) == <<1 + Len(sp.data), sp.raw>> \o sp.data

SubRegion(sps) ==
    LET body == Concat([i \in 1..Len(sps) |-> SubImage(sps[i])])
    IN  <<Len(body) \div 256, Len(body) % 256>> \o body

Sig4Body(hs, us) == <<4, 16, 1, 8>> \o SubRegion(hs) \o SubRegion(us) \o <<171, 205>>

\* the "hash material" bytes tried in a version 3 signature
V3Lengths == {0, 4, 5, 6}
V3Cuts == {0, 1, 2, 3, 12, 17, 18}

Sig3Body(b1) ==
    <<3, b1, 16, 0, 0, 0, 100, 1, 2, 3, 4, 5, 6, 7, 8, 17, 2, 171, 205>>

\* the code points of generated user ids: 'A', ' ', '<', '>', e-acute
TextChars == {65, 32, 60, 62, 233}

\* str.encode('utf8') of code points below 2048
utf8_encode(text) ==
    Concat([i \in 1..Len(text) |->
               IF text[i] < 128 THEN <<text[i]>>
               ELSE <<192 + (text[i] \div 64), 128 + (text[i] % 64)>>])

\* bodies that are not UTF-8
BadTexts == {<<255>>, <<65, 195>>, <<128, 60>>}

\* user attribute subpackets: the subtype and the data
AttrKinds ==
    {[sub_type |-> 1, data |-> <<4, 0, 1, 1, 7, 9>>],
     [sub_type |-> 1, data |-> <<4, 0>>],
     [sub_type |-> 2, data |-> <<170, 187>>],
     [sub_type |-> 3, data |-> <<>>]}

AttrImage(a) == <<1 + Len(a.data), a.sub_type>> \o a.data

\* public keys: RSA, DSA, ElGamal, an unknown algorithm, a version 3 key
KeyBodies ==
    {<<4, 0, 0, 0, 100, 1, 0, 9, 1, 255, 0, 2, 3>>,
     <<4, 0, 0, 0, 100, 17, 0, 1, 1, 0, 1, 1, 0, 1, 1, 0, 1, 1>>,
     <<4, 0, 0, 0, 100, 16, 0, 1, 1, 0, 1, 1, 0, 1, 1>>,
     <<4, 0, 0, 0, 100, 99>>,
     <<3, 0, 0, 0, 100>>}

----------------------------------------------------------------------------
(* The caller's loop over a buffer:                                        *)
(*   offset = 0                                                            *)
(*   while offset < len(buffer):                                           *)
(*       consumed, packet = construct_packet(buffer, offset)               *)
(*       offset += consumed                                                *)

Start(buffer, g) ==
    /\ data = buffer
    /\ offset = 0
    /\ pc = "loop"
    /\ hdr = NoHeader
    /\ pkt = <<>>
    /\ result = NoResult
    /\ calls = <<>>
    /\ reads = <<>>
    /\ gen = g

InitPackets ==
    \E ps \in SeqsUpTo(PacketKinds \X (0..MaxBody), MaxPackets) : \E cut \in Cuts :
        Start(DropLast(Concat([i \in 1..Len(ps) |-> PacketImage(ps[i])]), cut),
              [kind |-> "packets"])

InitSig3 ==
    \E b1 \in V3Lengths : \E cut \in V3Cuts :
        Start(Wrap(2, DropLast(Sig3Body(b1), cut)),
              [kind |-> "sig3", body |-> DropLast(Sig3Body(b1), cut)])

InitSig4 ==
    \E sps \in SeqsUpTo(SubKinds, MaxSubs) : \E k \in 0..Len(sps) :
        Start(Wrap(2, Sig4Body(SubSeq(sps, 1, k), SubSeq(sps, k + 1, Len(sps)))),
              [kind |-> "sig4", hashed |-> SubSeq(sps, 1, k),
               unhashed |-> SubSeq(sps, k + 1, Len(sps))])

InitUserID ==
    \/ \E text \in SeqsUpTo(TextChars, MaxText) :
         Start(Wrap(13, utf8_encode(text)), [kind |-> "uid", text |-> text])
    \/ \E body \in BadTexts : Start(Wrap(13, body), [kind |-> "uid_bytes"])

InitUserAttribute ==
    \E as \in SeqsUpTo(AttrKinds, MaxAttrs) :
        Start(Wrap(17, Concat([i \in 1..Len(as) |-> AttrImage(as[i])])),
              [kind |-> "uat", attrs |-> as])

InitKey ==
    \E body \in KeyBodies : \E tag \in {6, 14} : \E cut \in Cuts :
        Start(Wrap(tag, DropLast(body, cut)), [kind |-> "key"])

Init ==
    \/ InitPackets
    \/ InitSig3
    \/ InitSig4
    \/ InitUserID
    \/ InitUserAttribute
    \/ InitKey

\* construct_packet, lines 502-515: the header
ReadHeader ==
    /\ pc = "loop"
    /\ offset < Len(data)
    /\ calls' = Append(calls, offset)
    /\ reads' = <<>>
    /\ IF TagLength(data, offset).ok
       THEN /\ hdr' = Header(data, offset, TagLength(data, offset))
            /\ pc' = "construct"
            /\ result' = NoResult
       ELSE /\ hdr' = NoHeader
            /\ pc' = "raised"
            /\ result' = Raised("IndexError")
    /\ UNCHANGED <<data, offset, pkt, gen>>

\* line 518: PacketType(tag, name, new, packet_data), up to the call of parse()
NewPacket ==
    /\ pc = "construct"
    /\ pkt' = Machine(NewObject(hdr))
    /\ pc' = "parse"
    /\ UNCHANGED <<data, offset, hdr, result, calls, reads, gen>>

Parsing(cls) == pc = "parse" /\ hdr.cls = cls /\ pkt.pc \notin {"done", "raised"}

\* Packet.parse: a no-op
PacketParse ==
    /\ Parsing("Packet")
    /\ pkt' = Done(pkt, pkt.obj)
    /\ UNCHANGED <<data, offset, pc, hdr, result, calls, reads, gen>>

TrustPacketParse ==
    /\ Parsing("TrustPacket")
    /\ pkt' = TrustParse(pkt)
    /\ UNCHANGED <<data, offset, pc, hdr, result, calls, reads, gen>>

UserIDPacketParse ==
    /\ Parsing("UserIDPacket")
    /\ pkt' = UserIDParse(pkt)
    /\ UNCHANGED <<data, offset, pc, hdr, result, calls, reads, gen>>

PublicKeyPacketParse ==
    /\ Parsing("PublicKeyPacket") \/ Parsing("PublicSubkeyPacket")
    /\ pkt' = PublicKeyParse(pkt)
    /\ UNCHANGED <<data, offset, pc, hdr, result, calls, reads, gen>>

\* SignaturePacket.parse up to the first scan
SignatureParse ==
    /\ Parsing("SignaturePacket")
    /\ pkt.pc = "start"
    /\ pkt' = SigParseStart(pkt)
    /\ UNCHANGED <<data, offset, pc, hdr, result, calls, reads, gen>>

\* parse_subpackets: one iteration of the loop
SignatureSubpacketScan ==
    /\ Parsing("SignaturePacket")
    /\ SigScanning(pkt)
    /\ SigLoopCond(pkt)
    /\ pkt' = SubpacketIter(pkt)
    /\ reads' = Append(reads, pkt.offset)
    /\ UNCHANGED <<data, offset, pc, hdr, result, calls, gen>>

\* parse_subpackets: the loop ends, and parse() goes on
SignatureSubpacketsEnd ==
    /\ Parsing("SignaturePacket")
    /\ SigScanning(pkt)
    /\ ~SigLoopCond(pkt)
    /\ pkt' = SubpacketsEnd(pkt)
    /\ UNCHANGED <<data, offset, pc, hdr, result, calls, reads, gen>>

\* UserAttributePacket.parse: one iteration of the loop
UserAttributeScan ==
    /\ Parsing("UserAttributePacket")
    /\ UatLoopCond(pkt)
    /\ pkt' = UatIter(pkt)
    /\ reads' = Append(reads, pkt.offset)
    /\ UNCHANGED <<data, offset, pc, hdr, result, calls, gen>>

\* UserAttributePacket.parse: the loop ends
UserAttributeEnd ==
    /\ Parsing("UserAttributePacket")
    /\ ~UatLoopCond(pkt)
    /\ pkt' = Done(pkt, pkt.obj)
    /\ UNCHANGED <<data, offset, pc, hdr, result, calls, reads, gen>>

\* line 519, and the caller's offset += consumed
Return ==
    /\ pc = "parse"
    /\ pkt.pc = "done"
    /\ result' = Returned(hdr.data_offset + hdr.length, pkt.obj)
    /\ offset' = offset + hdr.data_offset + hdr.length
    /\ pc' = "loop"
    /\ UNCHANGED <<data, hdr, pkt, calls, reads, gen>>

\* parse() raised: the exception leaves construct_packet and the loop
Propagate ==
    /\ pc = "parse"
    /\ pkt.pc = "raised"
    /\ result' = Raised(pkt.exc)
    /\ pc' = "raised"
    /\ UNCHANGED <<data, offset, hdr, pkt, calls, reads, gen>>

\* the loop's test fails: the buffer is exhausted
Exit ==
    /\ pc = "loop"
    /\ offset >= Len(data)
    /\ pc' = "done"
    /\ UNCHANGED <<data, offset, hdr, pkt, result, calls, reads, gen>>

Next ==
    \/ ReadHeader
    \/ NewPacket
    \/ PacketParse
    \/ TrustPacketParse
    \/ UserIDPacketParse
    \/ PublicKeyPacketParse
    \/ SignatureParse
    \/ SignatureSubpacketScan
    \/ SignatureSubpacketsEnd
    \/ UserAttributeScan
    \/ UserAttributeEnd
    \/ Return
    \/ Propagate
    \/ Exit

Spec == Init /\ [][Next]_vars

----------------------------------------------------------------------------
(* new_tag_length on its own: a length field at the offset of a buffer *)

MaxPad == 1

\* the bytes after the first length byte
LenTails ==
    {<<>>, <<0>>, <<255>>, <<7, 9>>, <<0, 0, 1>>, <<1, 2, 3, 4>>,
     <<127, 255, 255, 255>>, <<0, 0, 0, 0, 9>>}

\* the lengths whose canonical encoding is decoded
LenSamples ==
    {0, 1, 190, 191, 192, 193, 223, 224, 225, 254, 255, 256, 447, 448, 8383,
     8384, 8385, 65535, 65536, 16777216, 2147483647}

\* the canonical new-style encoding of the length n
EncodeNewLength(n) ==
    IF n < 192 THEN <<n>>
    ELSE IF n < 8384 THEN <<192 + ((n - 192) \div 256), (n - 192) % 256>>
    ELSE <<255, n \div 16777216, (n \div 65536) % 256, (n \div 256) % 256, n % 256>>

StartLen(buffer, start, g) ==
    /\ data = buffer
    /\ offset = start
    /\ pc = "len"
    /\ hdr = NoHeader
    /\ pkt = <<>>
    /\ result = NoResult
    /\ calls = <<>>
    /\ reads = <<>>
    /\ gen = g

InitLen ==
    \E pad \in SeqsUpTo({200}, MaxPad) :
        \/ \E b \in 0..255 : \E tail \in LenTails :
             StartLen(pad \o <<b>> \o tail, Len(pad), [kind |-> "bytes"])
        \/ \E n \in LenSamples : \E more \in {<<>>, <<77>>} :
             StartLen(pad \o EncodeNewLength(n) \o more, Len(pad),
                      [kind |-> "canonical", n |-> n])

\* offset, length, partial = new_tag_length(data, offset)
DecodeLength ==
    /\ pc = "len"
    /\ result' = new_tag_length(data, offset)
    /\ pc' = "done"
    /\ UNCHANGED <<data, offset, hdr, pkt, calls, reads, gen>>

NextLen == DecodeLength

SpecLen == InitLen /\ [][NextLen]_vars

----------------------------------------------------------------------------
(* Properties *)

\* the big-endian value of the 4 bytes of d from index i (from 0) on
U32(d, i) == d[i + 1] * 16777216 + d[i + 2] * 65536 + d[i + 3] * 256 + d[i + 4]

\* C1: new_tag_length returns (0, b, no) for a first byte b < 192,
\* (1, ((b-192)<<8) + next + 192, no) for 192 <= b < 224, (4, the big-endian
\* u32 after b, no) for b = 255 and (0, 1 << (b & 0x1f), partial) for
\* 224 <= b < 255; the canonical encoding of a length n decodes to n.
C1_NewTagLengthTable ==
    (pc = "done" /\ gen.kind \in {"bytes", "canonical"}) =>
        LET b == At(data, offset) IN
        /\ b < 192 =>
             result = [ok |-> TRUE, offset |-> 0, length |-> b, partial |-> FALSE]
        /\ (192 <= b /\ b < 224 /\ offset + 1 < Len(data)) =>
             result = [ok |-> TRUE, offset |-> 1,
                       length |-> (b - 192) * 256 + At(data, offset + 1) + 192,
                       partial |-> FALSE]
        /\ (b = 255 /\ offset + 4 < Len(data)) =>
             result = [ok |-> TRUE, offset |-> 4, length |-> U32(data, offset + 1),
                       partial |-> FALSE]
        /\ (224 <= b /\ b < 255) =>
             result = [ok |-> TRUE, offset |-> 0, length |-> 2 ^ (b % 32),
                       partial |-> TRUE]
        /\ gen.kind = "canonical" =>
             /\ result.ok
             /\ result.length = gen.n
             /\ ~result.partial
             /\ result.offset = Len(EncodeNewLength(gen.n)) - 1

\* the two-byte band's first length, 192, decoded from its encoding C0 00
C1_Witness ==
    /\ pc = "done"
    /\ gen.kind = "canonical"
    /\ gen.n = 192
    /\ At(data, offset) = 192
    /\ result.length = 192
    /\ result.offset = 1

\* a tag without a decoder: absent from TAG_TYPES, or there with None
NoDecoder(tag) == tag \notin DOMAIN TAG_TYPES \/ TAG_TYPES[tag][2] = "Packet"

\* the bytes of the header at s, tag byte and length bytes, by the framing
HeaderBytes(d, s) ==
    IF IsNew(At(d, s))
    THEN IF At(d, s + 1) < 192 THEN 2
         ELSE IF At(d, s + 1) < 224 THEN 3
         ELSE IF At(d, s + 1) = 255 THEN 6 ELSE 2
    ELSE IF At(d, s) % 4 = 0 THEN 2
         ELSE IF At(d, s) % 4 = 1 THEN 3
         ELSE IF At(d, s) % 4 = 2 THEN 5 ELSE 1

\* a call whose header was decoded has finished: it returned or raised
CallFinished == hdr.ok /\ result.status # "none"

\* C2: for a tag without a registered decoder, in old or new framing,
\* construct_packet returns a generic Packet holding only the tag, the name
\* ('Unknown' for a tag absent from the table), the framing flag and the
\* body, and consumed is the header bytes plus the declared body length, so
\* the caller's offset becomes start + consumed.
C2_GenericPacket ==
    (CallFinished /\ NoDecoder(TagOf(At(data, hdr.start)))) =>
        LET s == hdr.start
            tag == TagOf(At(data, s))
            body == Slice(data, s + HeaderBytes(data, s),
                          s + HeaderBytes(data, s) + hdr.length)
        IN  /\ result.status = "ok"
            /\ result.packet =
                 [cls |-> "Packet", raw |-> tag,
                  name |-> IF tag \in DOMAIN TAG_TYPES THEN TAG_TYPES[tag][1]
                           ELSE "Unknown",
                  new |-> IsNew(At(data, s)), length |-> Len(body), data |-> body]
            /\ result.length = HeaderBytes(data, s) + hdr.length
            /\ offset = s + result.length
            /\ (s + result.length <= Len(data) =>
                  result.packet.length = hdr.length)

\* the second packet of a buffer has the unassigned tag 20 and a body
C2_Witness ==
    /\ CallFinished
    /\ hdr.start > 0
    /\ TagOf(At(data, hdr.start)) = 20
    /\ result.status = "ok"
    /\ result.packet.name = "Unknown"
    /\ result.packet.length = 2
    /\ offset = Len(data)

\* C3: when the declared body length exceeds the bytes left after the
\* header, construct_packet fails with TruncatedPacket: no call returns a
\* packet whose body is shorter than declared, and none returns a consumed
\* length with start + consumed > len(buffer).
C3_TruncatedPacketRaised ==
    CallFinished =>
        /\ hdr.start + hdr.data_offset + hdr.length > Len(data) =>
             (result.status = "error" /\ result.exc = "TruncatedPacket")
        /\ result.status = "ok" =>
             /\ Len(result.packet.data) = hdr.length
             /\ hdr.start + result.length <= Len(data)

\* C4: for an old-style tag byte with length type 3, old_tag_length returns
\* no length bytes and the length len(buffer) - start - 1, so the body is
\* every byte after the tag byte and start + consumed = len(buffer); for
\* length types 0, 1, 2 the header has 1, 2, 4 length bytes holding the
\* big-endian body length.
C4_OldTagLength ==
    (hdr.ok /\ ~hdr.new) =>
        LET s == hdr.start
            t == At(data, s) % 4
        IN  /\ t = 3 =>
                 /\ hdr.data_offset = 1
                 /\ hdr.length = Len(data) - s - 1
                 /\ hdr.packet_data = SubSeq(data, s + 2, Len(data))
                 /\ result.status = "ok" =>
                      /\ s + result.length = Len(data)
                      /\ result.packet.data = SubSeq(data, s + 2, Len(data))
            /\ t = 0 => (hdr.data_offset = 2 /\ hdr.length = At(data, s + 1))
            /\ t = 1 =>
                 /\ hdr.data_offset = 3
                 /\ hdr.length = At(data, s + 1) * 256 + At(data, s + 2)
            /\ t = 2 => (hdr.data_offset = 5 /\ hdr.length = U32(data, s + 1))

\* a length type 3 packet after another packet, with a body up to the end
C4_Witness ==
    /\ CallFinished
    /\ ~hdr.new
    /\ At(data, hdr.start) % 4 = 3
    /\ hdr.start > 0
    /\ result.status = "ok"
    /\ result.packet.length = 2
    /\ offset = Len(data)

\* C5: a version 3 signature whose byte 1 is not 5 fails and returns no
\* packet; when byte 1 is 5 the fields come from fixed offsets: type at 2,
\* creation time at 3..6, key id at 7..14, public-key algorithm at 15, hash
\* algorithm at 16, hash prefix at 17..18, and there are no subpackets.
C5_SignatureV3 ==
    (gen.kind = "sig3" /\ CallFinished /\ Len(gen.body) >= 2) =>
        LET b == gen.body IN
        /\ b[2] # 5 => (result.status = "error" /\ DOMAIN result = {"status", "exc"})
        /\ (b[2] = 5 /\ Len(b) >= 19) =>
             /\ result.status = "ok"
             /\ result.packet.sig_version = <<3>>
             /\ result.packet.raw_sig_type = <<b[3]>>
             /\ result.packet.raw_creation_time = <<U32(b, 3)>>
             /\ result.packet.creation_time =
                  <<[days |-> U32(b, 3) \div 86400, secs |-> U32(b, 3) % 86400]>>
             /\ result.packet.key_id = <<SubSeq(b, 8, 15)>>
             /\ result.packet.raw_pub_algorithm = <<b[16]>>
             /\ result.packet.raw_hash_algorithm = <<b[17]>>
             /\ result.packet.hash2 = <<SubSeq(b, 18, 19)>>
             /\ result.packet.subpackets = <<>>

\* a complete version 3 body with byte 1 = 4 was refused
C5_Witness ==
    /\ gen.kind = "sig3"
    /\ Len(gen.body) = 19
    /\ gen.body[2] = 4
    /\ CallFinished
    /\ result.status = "error"
    /\ result.exc = "Invalid v3 signature packet"

\* the subpackets a version 4 body was generated from, in stream order
AllSubs == gen.hashed \o gen.unhashed

\* the last of the first k subpackets with that subtype; 0 when there is none
LastSub(k, subtype) ==
    LET S == {i \in 1..k : AllSubs[i].raw % 128 = subtype}
    IN  IF S = {} THEN 0 ELSE CHOOSE i \in S : \A j \in S : j <= i

\* the signature under construction, or the one returned
SigObject == IF result.status = "ok" THEN result.packet ELSE pkt.obj

\* C6: in a version 4 signature the creation time and the key id are unset
\* until a subpacket sets them; raw_creation_time is the 4-byte value of the
\* last subtype 2 subpacket and key_id the 8-byte value of the last subtype
\* 16 subpacket, in stream order with the hashed region first; subpackets
\* holds every scanned subpacket in that order with its hashed flag.
C6_SignatureV4LastWins ==
    (gen.kind = "sig4" /\ hdr.ok /\ pc \in {"parse", "loop", "done"}) =>
        LET sig == SigObject
            k == Len(sig.subpackets)
            c == LastSub(k, 2)
            i == LastSub(k, 16)
        IN  /\ k <= Len(AllSubs)
            /\ result.status = "ok" => k = Len(AllSubs)
            /\ \A j \in 1..k :
                 /\ sig.subpackets[j].raw = AllSubs[j].raw
                 /\ sig.subpackets[j].subtype = AllSubs[j].raw % 128
                 /\ sig.subpackets[j].data = AllSubs[j].data
                 /\ sig.subpackets[j].hashed = (j <= Len(gen.hashed))
            /\ sig.raw_creation_time =
                 (IF c = 0 THEN <<>> ELSE <<U32(AllSubs[c].data, 0)>>)
            /\ sig.creation_time =
                 (IF c = 0 THEN <<>>
                  ELSE <<[days |-> U32(AllSubs[c].data, 0) \div 86400,
                          secs |-> U32(AllSubs[c].data, 0) % 86400]>>)
            /\ sig.key_id = (IF i = 0 THEN <<>> ELSE <<AllSubs[i].data>>)

\* a creation time in the hashed region, overwritten from the unhashed one,
\* with an issuer between them
C6_Witness ==
    /\ gen.kind = "sig4"
    /\ CallFinished
    /\ result.status = "ok"
    /\ Len(gen.hashed) = 2
    /\ Len(gen.unhashed) = 1
    /\ gen.hashed[1].raw = 2
    /\ gen.hashed[2].raw = 144
    /\ gen.unhashed[1].raw = 130
    /\ result.packet.raw_creation_time = <<86400>>
    /\ result.packet.key_id = <<(<<8, 7, 6, 5, 4, 3, 2, 1>>)>>
    /\ Len(result.packet.subpackets) = 3

\* whether the text holds a '<'
HasLT(text) == \E i \in 1..Len(text) : text[i] = LT

\* C7: a User-ID body that is valid UTF-8 never makes the decoder fail: the
\* packet is returned with the decoded text; with the shape 'name <email>',
\* the name possibly absent, user_name and user_email are set, and without
\* it they stay unset.
C7_UserIDNeverFails ==
    (gen.kind = "uid" /\ CallFinished) =>
        /\ result.status = "ok"
        /\ result.packet.user = <<gen.text>>
        /\ HasLT(gen.text) =>
             (result.packet.user_name # <<>> /\ result.packet.user_email # <<>>)
        /\ ~HasLT(gen.text) =>
             (result.packet.user_name = <<>> /\ result.packet.user_email = <<>>)

\* C8: a version 4 signature holding an expiration subpacket (subtype 3)
\* with value s and a creation time subpacket decodes, and expiration_time
\* is the final creation time plus s seconds, in whichever regions and
\* order the two subpackets are, and for every s.
C8_ExpirationFromFinalCreationTime ==
    (gen.kind = "sig4" /\ CallFinished
        /\ LastSub(Len(AllSubs), 3) # 0 /\ LastSub(Len(AllSubs), 2) # 0) =>
        LET s == U32(AllSubs[LastSub(Len(AllSubs), 3)].data, 0)
            t == U32(AllSubs[LastSub(Len(AllSubs), 2)].data, 0)
        IN  /\ result.status = "ok"
            /\ result.packet.expiration_time =
                 <<[days |-> (t + s) \div 86400, secs |-> (t + s) % 86400]>>

\* where the i-th generated attribute subpacket starts in the body
AttrStart(i) ==
    LET at[j \in 1..i] ==
            IF j = 1 THEN 0 ELSE at[j - 1] + Len(AttrImage(gen.attrs[j - 1]))
    IN  at[i]

\* C9: the User-Attribute decoder reads each subpacket header right after
\* the previous subpacket's data: h + L bytes after the previous header for
\* a length header of h bytes and a declared length L, for image and other
\* subtypes alike; no byte of a subpacket's data is read as a header.
C9_UserAttributeFraming ==
    (gen.kind = "uat" /\ hdr.ok) =>
        /\ Len(reads) <= Len(gen.attrs)
        /\ \A i \in 1..Len(reads) : reads[i] = AttrStart(i)

\* C10: every successful construct_packet returns consumed >= 1, and >= 2
\* in new framing, so the caller's offsets strictly increase and the loop
\* ends, by exhausting the buffer or by an error, within len(buffer) calls.
\* Inside a call the scanning loops advance too, and no call is left at a
\* place where no step applies.
C10_LoopProgress ==
    /\ result.status = "ok" =>
         /\ result.length >= 1
         /\ hdr.new => result.length >= 2
         /\ offset > calls[Len(calls)]
    /\ \A i \in 1..Len(calls) : \A j \in 1..Len(calls) : i < j => calls[i] < calls[j]
    /\ \A i \in 1..Len(calls) : calls[i] < Len(data)
    /\ Len(calls) <= Len(data)
    /\ \A i \in 1..Len(reads) : \A j \in 1..Len(reads) : i < j => reads[i] < reads[j]
    /\ \A i \in 1..Len(reads) : reads[i] <= Len(data)
    /\ pc = "construct" => hdr.ok
    /\ (pc = "parse" /\ hdr.cls = "SignaturePacket") =>
         pkt.pc \in {"start", "hashed", "unhashed", "done", "raised"}

\* the loop ended after a last call that consumed a single byte
C10_Witness ==
    /\ pc = "done"
    /\ Len(calls) = 2
    /\ result.status = "ok"
    /\ result.length = 1
    /\ offset = Len(data)

====
